---- MODULE Spec2Model ----
(***************************************************************************)
(* State-machine model of WebSocketService (src/unnamed/part_000) and of   *)
(* its owner WebSocketContribution.                                        *)
(*                                                                         *)
(* Execution model: Node's single-threaded event loop.  Callbacks that the *)
(* libraries schedule with process.nextTick ('listening', 'error' and      *)
(* 'close' of the http server, 'close' of the WebSocketServer) are kept in *)
(* the FIFO queue ticks; I/O events (a client connects, sends a frame,     *)
(* closes, a dispatched command settles) are only taken when the queue is  *)
(* empty.  Calls of the public methods may come at any point between two   *)
(* callbacks.                                                              *)
(*                                                                         *)
(* Library behaviour the source relies on (ws 8, node:http / node:net):    *)
(*  - server.listen(port, cb) binds synchronously; the outcome is reported *)
(*    on the next tick ('listening' or 'error');                           *)
(*  - WebSocketServer.close(cb) of a server built with {server} detaches   *)
(*    from the http server, does not close the clients, and emits 'close'  *)
(*    once it has no client left;                                          *)
(*  - http server.close(cb) releases the port at once and emits 'close'    *)
(*    once its last socket is gone;                                        *)
(*  - ws.send on a socket that is not open drops the frame without         *)
(*    throwing.                                                            *)
(***************************************************************************)
EXTENDS Integers, Sequences, FiniteSets, TLC

\* ------------------------------------------------------------------ bounds
MaxServers == 3        \* start() calls that get past the guard
MaxPendingStops == 2   \* stop() calls whose promise is still pending
MaxConns == 2          \* client connections over the whole run
MaxMsgs == 1           \* inbound frames over the whole run
MaxProtocolMsgs == 2   \* inbound frames when the protocol handler is studied alone
MaxBroadcasts == 1     \* broadcast() calls over the whole run

port == 3001

VARIABLES
    isActive,          \* this.isActive
    server,            \* this.server: index into srv, 0 = undefined
    wss,               \* this.wss:    index into srv, 0 = undefined
    connectedClients,  \* this.connectedClients
    srv,               \* every http Server / WebSocketServer pair created so far
    ticks,             \* FIFO queue of process.nextTick callbacks
    extPort,           \* TRUE while another process holds the port
    conn,              \* the client connections (ws objects)
    msgs,              \* one record per inbound frame: its handler's progress
    sent,              \* every ws.send call of the message handler, in order
    bcast,             \* per broadcast() call: the connections it sent to, in order
    stale,             \* connections accepted before the latest completed stop()
    disposables,       \* WebSocketContribution._disposables: disposed?, the stop hook
    last               \* the step taken last

vars == <<isActive, server, wss, connectedClients, srv, ticks, extPort, conn,
          msgs, sent, bcast, stale, disposables, last>>

ConnIds == 1..MaxConns
SrvIds == 1..Len(srv)

\* ------------------------------------------------------------------ helpers

\* Append a callback to the nextTick queue; a callback already queued for the
\* same emitter runs every listener registered by then, so a second copy
\* behind it would find none.
Enqueue(q, k, i) ==
    IF \E n \in 1..Len(q) : q[n] = [k |-> k, s |-> i] THEN q
    ELSE Append(q, [k |-> k, s |-> i])

\* The OS port is free when neither another process nor one of our servers
\* holds it.
PortFree == ~extPort /\ \A i \in SrvIds : srv[i].handle # "bound"

\* wss.clients of server i: accepted sockets whose 'close' was not emitted.
Clients(c, i) == {x \in ConnIds : c[x].srv = i /\ c[x].st \in {"OPEN", "CLOSING"}}

\* stop() promises that are still pending.
RECURSIVE SumCbs(_, _)
SumCbs(s, n) == IF n = 0 THEN 0 ELSE s[n].wssCbs + s[n].srvCbs + SumCbs(s, n - 1)
StopPending == SumCbs(srv, Len(srv))

\* start() promises that are still pending.
StartPending == {i \in SrvIds : srv[i].startP = "pending"}

Bound == {i \in SrvIds : srv[i].handle = "bound"}

NewServerAlwaysBinds(free) ==
    [handle |-> "bound",
     wssState |-> "RUNNING", shouldEmitClose |-> FALSE,
     wssCbs |-> 0, srvCbs |-> 0, startP |-> "pending"]
NewServer(free) ==
    [handle |-> IF free THEN "bound" ELSE "failed",
     wssState |-> "RUNNING", shouldEmitClose |-> FALSE,
     wssCbs |-> 0, srvCbs |-> 0, startP |-> "pending"]

\* ------------------------------------------------------------------ start()

\* line 40: if (this.isActive) return;
StartGuardMissing == FALSE
StartIsNoop == isActive

Start ==
    /\ UNCHANGED disposables
    /\ UNCHANGED <<isActive, connectedClients, extPort, conn, msgs, sent,
                   bcast, stale>>
    /\ IF StartIsNoop
       THEN /\ last' = "start_noop"
            /\ UNCHANGED <<server, wss, srv, ticks>>
       ELSE /\ Len(srv) < MaxServers
            /\ srv' = Append(srv, NewServer(PortFree))
            /\ server' = Len(srv) + 1
            /\ wss' = Len(srv) + 1
            /\ ticks' = Append(ticks, [k |-> IF PortFree THEN "listening" ELSE "error",
                                       s |-> Len(srv) + 1])
            /\ last' = "start_listen"

\* lines 124-128: the listen callback.  Node emits 'listening' only if the
\* server's handle was not closed in the meantime; otherwise the callback is
\* never called and the promise stays pending.
OnListening ==
    /\ UNCHANGED disposables
    /\ ticks # <<>> /\ Head(ticks).k = "listening"
    /\ LET i == Head(ticks).s IN
       /\ ticks' = Tail(ticks)
       /\ IF srv[i].handle = "bound"
          THEN /\ isActive' = TRUE
               /\ srv' = [srv EXCEPT ![i].startP = "resolved"]
               /\ last' = "listening"
          ELSE /\ last' = "not_listening"
               /\ UNCHANGED <<isActive, srv>>
    /\ UNCHANGED <<server, wss, connectedClients, extPort, conn, msgs, sent,
                   bcast, stale>>

\* lines 130-132: the 'error' listener
OnServerError ==
    /\ UNCHANGED disposables
    /\ ticks # <<>> /\ Head(ticks).k = "error"
    /\ LET i == Head(ticks).s IN
       /\ ticks' = Tail(ticks)
       /\ srv' = [srv EXCEPT ![i].startP = "rejected"]
       /\ last' = "binderror"
    /\ UNCHANGED <<isActive, server, wss, connectedClients, extPort, conn, msgs,
                   sent, bcast, stale>>

\* ------------------------------------------------------------------ stop()

\* line 141: if (!this.isActive) return;
StopGuardMissing == FALSE
StopIsNoop == ~isActive

\* wss.close(cb) on WebSocketServer i (line 148)
WssClose(s, q, i) ==
    LET reg == [s EXCEPT ![i].wssCbs = @ + 1] IN
    IF s[i].wssState = "CLOSED" THEN <<reg, Enqueue(q, "wssClose", i)>>
    ELSE IF s[i].wssState = "CLOSING" THEN <<reg, q>>
    ELSE IF Clients(conn, i) = {}
         THEN <<[reg EXCEPT ![i].wssState = "CLOSING"], Enqueue(q, "wssClose", i)>>
         ELSE <<[reg EXCEPT ![i].wssState = "CLOSING", ![i].shouldEmitClose = TRUE], q>>

StopCall ==
    /\ UNCHANGED <<server, wss, extPort, conn, msgs, sent, bcast>>
    /\ IF StopIsNoop
       THEN /\ last' = "stop_noop"
            /\ stale' = {c \in ConnIds : conn[c].st # "NEW"}
            /\ UNCHANGED <<isActive, connectedClients, srv, ticks>>
       ELSE /\ StopPending < MaxPendingStops
            /\ last' = "stop_close"
            /\ IF wss # 0
               THEN /\ srv' = WssClose(srv, ticks, wss)[1]
                    /\ ticks' = WssClose(srv, ticks, wss)[2]
                    /\ UNCHANGED <<isActive, connectedClients, stale>>
               ELSE \* lines 162-166
                    /\ isActive' = FALSE
                    /\ connectedClients' = {}
                    /\ stale' = {c \in ConnIds : conn[c].st # "NEW"}
                    /\ UNCHANGED <<srv, ticks>>

\* stop() called by anyone but the contribution's dispose hook
Stop == StopCall /\ UNCHANGED disposables

\* http server.close(cb2) on server j for n callers (line 150)
ServerClose(s, q, j, n) ==
    <<[s EXCEPT ![j].srvCbs = @ + n,
                ![j].handle = IF @ = "bound" THEN "closed" ELSE @],
      IF Clients(conn, j) = {} THEN Enqueue(q, "srvClose", j) ELSE q>>

\* lines 148-161: 'close' of the WebSocketServer runs every stop()'s callback
OnWssClose ==
    /\ UNCHANGED disposables
    /\ ticks # <<>> /\ Head(ticks).k = "wssClose"
    /\ LET i == Head(ticks).s
           n == srv[i].wssCbs
           s1 == [srv EXCEPT ![i].wssState = "CLOSED", ![i].wssCbs = 0,
                             ![i].shouldEmitClose = FALSE]
       IN
       /\ last' = "wss_closed"
       /\ IF n = 0
          THEN /\ srv' = s1 /\ ticks' = Tail(ticks)
               /\ UNCHANGED <<isActive, connectedClients, stale>>
          ELSE IF server # 0
          THEN /\ srv' = ServerClose(s1, Tail(ticks), server, n)[1]
               /\ ticks' = ServerClose(s1, Tail(ticks), server, n)[2]
               /\ UNCHANGED <<isActive, connectedClients, stale>>
          ELSE \* lines 156-160
               /\ srv' = s1 /\ ticks' = Tail(ticks)
               /\ isActive' = FALSE
               /\ connectedClients' = {}
               /\ stale' = {c \in ConnIds : conn[c].st # "NEW"}
    /\ UNCHANGED <<server, wss, extPort, conn, msgs, sent, bcast>>

\* lines 150-155: 'close' of the http server completes every stop() waiting on it
OnServerClose ==
    /\ UNCHANGED disposables
    /\ ticks # <<>> /\ Head(ticks).k = "srvClose"
    /\ LET j == Head(ticks).s IN
       /\ ticks' = Tail(ticks)
       /\ IF srv[j].srvCbs > 0
          THEN /\ isActive' = FALSE
               /\ connectedClients' = {}
               /\ srv' = [srv EXCEPT ![j].srvCbs = 0]
               /\ stale' = {c \in ConnIds : conn[c].st # "NEW"}
               /\ last' = "stop_done"
          ELSE /\ last' = "srv_closed"
               /\ UNCHANGED <<isActive, connectedClients, srv, stale>>
    /\ UNCHANGED <<server, wss, extPort, conn, msgs, sent, bcast>>

\* lines 170-176
isRunning == isActive
getPortWhileActive == IF isActive THEN port ELSE 0
getPort == port

\* ------------------------------------------------------------------ environment

\* Another process takes or releases the port.
ExtBind ==
    /\ UNCHANGED disposables
    /\ PortFree
    /\ extPort' = TRUE
    /\ last' = "ext_bind"
    /\ UNCHANGED <<isActive, server, wss, connectedClients, srv, ticks, conn,
                   msgs, sent, bcast, stale>>

ExtRelease ==
    /\ UNCHANGED disposables
    /\ extPort
    /\ extPort' = FALSE
    /\ last' = "ext_release"
    /\ UNCHANGED <<isActive, server, wss, connectedClients, srv, ticks, conn,
                   msgs, sent, bcast, stale>>

\* ------------------------------------------------------------------ connections

\* lines 113, 118, 186: this.connectedClients.delete(ws)
DeleteKeeps(reg, c) == reg
DeleteOrClear(reg, c) == IF c \in reg THEN reg \ {c} ELSE {}
Delete(reg, c) == reg \ {c}

\* line 50: this.connectedClients.add(ws)
AddNothing(reg, c) == reg
Add(reg, c) == reg \cup {c}

\* A client connects: the http server upgrades the socket and the
\* WebSocketServer emits 'connection' (lines 48-50).  Connections are numbered
\* in the order they are accepted.
OnConnection(i) ==
    /\ UNCHANGED disposables
    /\ ticks = <<>>
    /\ srv[i].handle = "bound" /\ srv[i].wssState = "RUNNING"
    /\ \E c \in ConnIds :
         /\ conn[c].st = "NEW"
         /\ \A d \in ConnIds : d < c => conn[d].st # "NEW"
         /\ conn' = [conn EXCEPT ![c] = [st |-> "OPEN", srv |-> i]]
         /\ connectedClients' = Add(connectedClients, c)
    /\ last' = "connection"
    /\ UNCHANGED <<isActive, server, wss, srv, ticks, extPort, msgs, sent,
                   bcast, stale>>

\* The closing handshake has begun: readyState is CLOSING, 'close' not yet emitted.
ClientClosing(c) ==
    /\ UNCHANGED disposables
    /\ ticks = <<>>
    /\ conn[c].st = "OPEN"
    /\ conn' = [conn EXCEPT ![c].st = "CLOSING"]
    /\ last' = "closing"
    /\ UNCHANGED <<isActive, server, wss, connectedClients, srv, ticks, extPort,
                   msgs, sent, bcast, stale>>

\* What the libraries schedule when the socket of connection c is gone: the http
\* server emits 'close' when its handle is closed and this was its last socket,
\* the WebSocketServer emits 'close' when it was closing and this was its last
\* client.
AfterSocketClose(c, cn) ==
    LET i == conn[c].srv
        q1 == IF srv[i].handle = "closed" /\ Clients(cn, i) = {}
              THEN Enqueue(ticks, "srvClose", i) ELSE ticks
    IN IF srv[i].shouldEmitClose /\ Clients(cn, i) = {}
       THEN Enqueue(q1, "wssClose", i) ELSE q1

\* lines 111-114: ws.on('close')
OnClose(c) ==
    /\ UNCHANGED disposables
    /\ ticks = <<>>
    /\ conn[c].st \in {"OPEN", "CLOSING"}
    /\ conn' = [conn EXCEPT ![c].st = "CLOSED"]
    /\ connectedClients' = Delete(connectedClients, c)
    /\ ticks' = AfterSocketClose(c, conn')
    /\ last' = "close"
    /\ UNCHANGED <<isActive, server, wss, srv, extPort, msgs, sent, bcast,
                   stale>>

\* lines 116-119: ws.on('error'); the library then closes the socket
OnError(c) ==
    /\ UNCHANGED disposables
    /\ ticks = <<>>
    /\ conn[c].st = "OPEN"
    /\ conn' = [conn EXCEPT ![c].st = "CLOSING"]
    /\ connectedClients' = Delete(connectedClients, c)
    /\ last' = "error"
    /\ UNCHANGED <<isActive, server, wss, srv, ticks, extPort, msgs, sent,
                   bcast, stale>>

\* ------------------------------------------------------------------ protocol

\* Inbound frames: the text of the frame, with what JSON.parse makes of it
\* (json: it parses; object: the value has properties to read).
Frames ==
    { [text |-> "{type:chat,message:hello}", json |-> TRUE, object |-> TRUE, type |-> "chat", message |-> "hello"],
      [text |-> "{type:chat,message:}", json |-> TRUE, object |-> TRUE, type |-> "chat", message |-> ""],
      [text |-> "{type:chat}", json |-> TRUE, object |-> TRUE, type |-> "chat", message |-> "undefined"],
      [text |-> "{type:clear_history}", json |-> TRUE, object |-> TRUE, type |-> "clear_history", message |-> "undefined"],
      [text |-> "{not:valid}", json |-> TRUE, object |-> TRUE, type |-> "undefined", message |-> "undefined"],
      [text |-> "null", json |-> TRUE, object |-> FALSE, type |-> "undefined", message |-> "undefined"],
      [text |-> "not json", json |-> FALSE, object |-> FALSE, type |-> "undefined", message |-> "undefined"] }

\* line 54 throws on text that is not JSON, line 56 on reading data.type of null.
DecodeThrows(f) == ~f.json \/ ~f.object

\* JavaScript truthiness of data.message (line 56)
TruthyAlways(m) == TRUE
Truthy(m) == m # "" /\ m # "undefined"

\* line 56: data.type === 'chat' && data.message
IsChat(f) == f.type = "chat" /\ Truthy(f.message)
\* line 76: data.type === 'clear_history'
IsClearHistoryNever(f) == FALSE
IsClearHistory(f) == f.type = "clear_history"

\* The frames of lines 58-62, 71-75, 78-82, 89-93, 95-99, 103-107
StartedFrame(f) ==
    IF IsChat(f)
    THEN [type |-> "chat_started", status |-> "success", message |-> "Chat session initiated"]
    ELSE [type |-> "clear_started", status |-> "success", message |-> "Clearing chat history..."]

CompletedFrameSwapped(f) ==
    IF IsChat(f)
    THEN [type |-> "clear_completed", status |-> "success", message |-> "Chat history cleared successfully"]
    ELSE [type |-> "chat_opened", status |-> "success", message |-> "Chat opened successfully"]
CompletedFrame(f) ==
    IF IsChat(f)
    THEN [type |-> "chat_opened", status |-> "success", message |-> "Chat opened successfully"]
    ELSE [type |-> "clear_completed", status |-> "success", message |-> "Chat history cleared successfully"]

\* The reply of lines 103-107 with the text of lines 95-99.
FailedFrameAsInvalid ==
    [type |-> "error", status |-> "error", message |-> "Invalid message format. Expected: ..."]
InvalidFrameWithSuccess ==
    [type |-> "error", status |-> "success", message |-> "Invalid message format. Expected: ..."]
InvalidFrame ==
    [type |-> "error", status |-> "error", message |-> "Invalid message format. Expected: ..."]
FailedFrame ==
    [type |-> "error", status |-> "error", message |-> "Failed to process message"]

\* No executeCommand is reached (lines 94-108).
NoCommand == [name |-> "none", query |-> "undefined"]

\* The command of lines 66-68 and 86
CommandAlwaysChatOpen(f) == [name |-> "workbench.action.chat.open", query |-> f.message]
Command(f) ==
    IF IsChat(f)
    THEN [name |-> "workbench.action.chat.open", query |-> f.message]
    ELSE [name |-> "workbench.action.chat.clearHistory", query |-> "undefined"]

\* ws.send throws (lines 58-107, 183): ws throws only on a socket still
\* connecting, which a socket handed to the 'connection' listener never is.
SendThrowsUnlessOpen(st) == st # "OPEN"
SendThrows(st) == st = "CONNECTING"

\* ws.send(frame) on connection c for inbound message m.  The call is logged
\* with the readyState it found; a socket that is not open drops the frame.
SendTwice(log, c, m, frame) ==
    Append(Append(log, [to |-> c, m |-> m, frame |-> frame, open |-> conn[c].st = "OPEN"]),
           [to |-> c, m |-> m, frame |-> frame, open |-> conn[c].st = "OPEN"])
SendElsewhere(log, c, m, frame) ==
    Append(log, [to |-> (c % MaxConns) + 1, m |-> m, frame |-> frame,
                 open |-> conn[(c % MaxConns) + 1].st = "OPEN"])
Send(log, c, m, frame) ==
    Append(log, [to |-> c, m |-> m, frame |-> frame, open |-> conn[c].st = "OPEN"])

\* line 52: ws emits 'message' for each frame read from an open socket and
\* calls the async listener without waiting for the promise of an earlier call.
ReceivesWhenIdle(c) ==
    conn[c].st = "OPEN" /\ \A m \in 1..Len(msgs) : msgs[m].pc # "dispatch"
Receives(c) == conn[c].st = "OPEN"

\* lines 52-109 up to the first await: ws.on('message'); max bounds the
\* number of frames received over the run.
OnMessage(c, f, max) ==
    /\ UNCHANGED disposables
    /\ ticks = <<>>
    /\ Receives(c)
    /\ Len(msgs) < max
    /\ LET m == Len(msgs) + 1 IN
       IF DecodeThrows(f)
       THEN \* lines 101-108
            /\ sent' = Send(sent, c, m, FailedFrame)
            /\ msgs' = Append(msgs, [c |-> c, f |-> f, pc |-> "done", cmd |-> NoCommand, result |-> "failed"])
       ELSE IF IsChat(f) \/ IsClearHistory(f)
       THEN /\ sent' = Send(sent, c, m, StartedFrame(f))
            /\ msgs' = Append(msgs, [c |-> c, f |-> f, pc |-> "dispatch", cmd |-> Command(f), result |-> "pending"])
       ELSE \* lines 94-100
            /\ sent' = Send(sent, c, m, InvalidFrame)
            /\ msgs' = Append(msgs, [c |-> c, f |-> f, pc |-> "done", cmd |-> NoCommand, result |-> "invalid"])
    /\ last' = "message"
    /\ UNCHANGED <<isActive, server, wss, connectedClients, srv, ticks, extPort,
                   conn, bcast, stale>>

\* The awaited executeCommand settles: lines 70-75 / 88-93 on success, the catch
\* of lines 101-108 on failure.  A send that throws in the try block is caught
\* at line 101; the send of the catch block is inside no try, so if it throws
\* the handler's promise is rejected with nobody to handle the rejection.
DispatchSettles(m, ok) ==
    /\ UNCHANGED disposables
    /\ ticks = <<>>
    /\ msgs[m].pc = "dispatch"
    /\ IF SendThrows(conn[msgs[m].c].st)
       THEN /\ msgs' = [msgs EXCEPT ![m].pc = "done", ![m].result = "unhandled"]
            /\ UNCHANGED sent
       ELSE IF ok
       THEN /\ sent' = Send(sent, msgs[m].c, m, CompletedFrame(msgs[m].f))
            /\ msgs' = [msgs EXCEPT ![m].pc = "done", ![m].result = "completed"]
       ELSE /\ sent' = Send(sent, msgs[m].c, m, FailedFrame)
            /\ msgs' = [msgs EXCEPT ![m].pc = "done", ![m].result = "failed"]
    /\ last' = "dispatched"
    /\ UNCHANGED <<isActive, server, wss, connectedClients, srv, ticks, extPort,
                   conn, bcast, stale>>

\* ------------------------------------------------------------------ broadcast

\* lines 180-189: the registry is visited in insertion order, which is the
\* order of the connection numbers; deleting the member being visited does
\* not disturb the visit of the others.  The result is the sequence of
\* connections the payload was sent to and the registry left behind.  bad is
\* the set of connections whose send is taken to throw: ws gives none, the
\* catch of lines 184-187 is written for any.
\* line 181: client.readyState === WebSocket.OPEN
ReadyStateAny(st) == TRUE
ReadyStateOpen(st) == st = "OPEN"

RECURSIVE BroadcastFrom(_, _, _, _)
BroadcastFrom(c, to, reg, bad) ==
    IF c > MaxConns THEN <<to, reg>>
    ELSE IF c \in reg /\ ReadyStateOpen(conn[c].st)
    THEN IF SendThrows(conn[c].st) \/ c \in bad
         THEN BroadcastFrom(c + 1, to, Delete(reg, c), bad)
         ELSE BroadcastFrom(c + 1, Append(to, c), reg, bad)
    ELSE BroadcastFrom(c + 1, to, reg, bad)

\* line 179: JSON.stringify throws on a payload it cannot serialise (a
\* circular structure, a BigInt); the exception leaves broadcast() before any
\* send.
Payloads == {"serialisable", "circular"}
StringifyThrows(p) == p = "circular"

Broadcast(p, bad) ==
    /\ UNCHANGED disposables
    /\ Len(bcast) < MaxBroadcasts
    /\ IF StringifyThrows(p)
       THEN /\ bcast' = Append(bcast, [threw |-> TRUE, to |-> <<>>, failed |-> {}])
            /\ UNCHANGED connectedClients
       ELSE /\ bcast' = Append(bcast, [threw |-> FALSE,
                                       to |-> BroadcastFrom(1, <<>>, connectedClients, bad)[1],
                                       failed |-> {c \in connectedClients :
                                                     conn[c].st = "OPEN" /\ c \in bad}])
            /\ connectedClients' = BroadcastFrom(1, <<>>, connectedClients, bad)[2]
    /\ last' = "broadcast"
    /\ UNCHANGED <<isActive, server, wss, srv, ticks, extPort, conn, msgs, sent, stale>>

\* ------------------------------------------------------------------ specification

Init ==
    /\ isActive = FALSE
    /\ server = 0
    /\ wss = 0
    /\ connectedClients = {}
    /\ srv = <<>>
    /\ ticks = <<>>
    /\ extPort = FALSE
    /\ conn = [c \in ConnIds |-> [st |-> "NEW", srv |-> 0]]
    /\ msgs = <<>>
    /\ sent = <<>>
    /\ bcast = <<>>
    /\ stale = {}
    /\ disposables = [isDisposed |-> FALSE, hook |-> "none"]
    /\ last = "init"

Next ==
    \/ Start
    \/ OnListening
    \/ OnServerError
    \/ Stop
    \/ OnWssClose
    \/ OnServerClose
    \/ ExtBind
    \/ ExtRelease
    \/ \E i \in SrvIds : OnConnection(i)
    \/ \E c \in ConnIds : ClientClosing(c)
    \/ \E c \in ConnIds : OnClose(c)
    \/ \E c \in ConnIds : OnError(c)
    \/ \E c \in ConnIds, f \in Frames : OnMessage(c, f, MaxMsgs)
    \/ \E m \in 1..Len(msgs), ok \in BOOLEAN : DispatchSettles(m, ok)
    \/ \E p \in Payloads : Broadcast(p, {})

Spec == Init /\ [][Next]_vars

\* The lifecycle on its own.  The message handler writes only msgs and sent,
\* and broadcast() only bcast (its send never throws, so it removes nothing
\* from the registry); no lifecycle step reads any of the three, so the
\* lifecycle is the same without them.
NextLifecycle ==
    \/ Start
    \/ OnListening
    \/ OnServerError
    \/ Stop
    \/ OnWssClose
    \/ OnServerClose
    \/ ExtBind
    \/ ExtRelease
    \/ \E i \in SrvIds : OnConnection(i)
    \/ \E c \in ConnIds : ClientClosing(c)
    \/ \E c \in ConnIds : OnClose(c)
    \/ \E c \in ConnIds : OnError(c)

LifecycleSpec == Init /\ [][NextLifecycle]_vars

\* The protocol handler on a service that is started once, as its owner does
\* (websocket.contribution.ts, line 24).  The handler reads only the readyState
\* of its connection; broadcast() writes nothing it reads.
StartOnce == srv = <<>> /\ Start

NextProtocol ==
    \/ StartOnce
    \/ OnListening
    \/ Stop
    \/ OnWssClose
    \/ OnServerClose
    \/ \E i \in SrvIds : OnConnection(i)
    \/ \E c \in ConnIds : ClientClosing(c)
    \/ \E c \in ConnIds : OnClose(c)
    \/ \E c \in ConnIds : OnError(c)
    \/ \E c \in ConnIds, f \in Frames : OnMessage(c, f, MaxProtocolMsgs)
    \/ \E m \in 1..Len(msgs), ok \in BOOLEAN : DispatchSettles(m, ok)

ProtocolSpec == Init /\ [][NextProtocol]_vars

\* broadcast() on a service that is started once, with client.send allowed to
\* throw on any connection, so that the catch of lines 184-187 is exercised.
NextBroadcast ==
    \/ StartOnce
    \/ OnListening
    \/ Stop
    \/ OnWssClose
    \/ OnServerClose
    \/ \E i \in SrvIds : OnConnection(i)
    \/ \E c \in ConnIds : ClientClosing(c)
    \/ \E c \in ConnIds : OnClose(c)
    \/ \E c \in ConnIds : OnError(c)
    \/ \E p \in Payloads, bad \in SUBSET ConnIds : Broadcast(p, bad)

BroadcastSpec == Init /\ [][NextBroadcast]_vars

\* The registry under everything that adds to it or removes from it: the
\* lifecycle with any number of start() calls, and broadcast() with client.send
\* allowed to throw.
NextRegistry ==
    \/ NextLifecycle
    \/ \E p \in Payloads, bad \in SUBSET ConnIds : Broadcast(p, bad)

RegistrySpec == Init /\ [][NextRegistry]_vars

\* ------------------------------------------------------------------ contribution

\* DisposableStore.add (util/vs/base/common/lifecycle): a store that is already
\* disposed keeps nothing; the disposable handed to it is leaked, not disposed.
StoreAdd(isDisposed) == IF isDisposed THEN "leaked" ELSE "registered"

\* The await of line 24 is over and its continuation has not run yet.
AfterStartDue ==
    disposables.hook = "none" /\ srv # <<>> /\ srv[1].startP # "pending"

\* websocket.contribution.ts, lines 24-35: after a start() that resolved the
\* stop hook is added to the store (lines 28-32); a start() that rejected ends
\* in the catch of line 33, which logs.
AfterStart ==
    /\ AfterStartDue
    /\ disposables' = [disposables EXCEPT
                          !.hook = IF srv[1].startP = "resolved"
                                   THEN StoreAdd(disposables.isDisposed)
                                   ELSE "failed"]
    /\ last' = "after_start"
    /\ UNCHANGED <<isActive, server, wss, connectedClients, srv, ticks, extPort,
                   conn, msgs, sent, bcast, stale>>

\* websocket.contribution.ts, lines 38-40: dispose() disposes the store, which
\* runs the stop hook if it holds it.  The contribution exists once its
\* constructor has called start(); the continuation of line 24 is a microtask
\* and runs before any later call; a second dispose() of the store does
\* nothing.
Dispose ==
    /\ srv # <<>>
    /\ ~AfterStartDue
    /\ ~disposables.isDisposed
    /\ disposables' = [disposables EXCEPT !.isDisposed = TRUE]
    /\ IF disposables.hook = "registered"
       THEN StopCall
       ELSE /\ last' = "dispose"
            /\ UNCHANGED <<isActive, server, wss, connectedClients, srv, ticks,
                           extPort, conn, msgs, sent, bcast, stale>>

\* The service in the hands of its owner: created and started by the
\* constructor, stopped by nobody but the dispose hook.
NextContribution ==
    \/ StartOnce
    \/ OnListening
    \/ OnServerError
    \/ AfterStart
    \/ Dispose
    \/ OnWssClose
    \/ OnServerClose
    \/ ExtBind
    \/ ExtRelease
    \/ \E i \in SrvIds : OnConnection(i)
    \/ \E c \in ConnIds : ClientClosing(c)
    \/ \E c \in ConnIds : OnClose(c)
    \/ \E c \in ConnIds : OnError(c)

ContributionSpec == Init /\ [][NextContribution]_vars

\* Node runs every queued nextTick callback before it waits for I/O, and ws
\* destroys the socket of a connection that is CLOSING when its close timer
\* expires.  Nothing makes a client that is OPEN close its side.
RunTicks == OnListening \/ OnServerError \/ OnWssClose \/ OnServerClose
SocketCloses(c) == conn[c].st = "CLOSING" /\ OnClose(c)
FairSpec ==
    /\ Init /\ [][Next]_vars
    /\ WF_vars(RunTicks)
    /\ \A c \in ConnIds : WF_vars(SocketCloses(c))

\* The lifecycle on its own under the same scheduling.
FairLifecycleSpec ==
    /\ Init /\ [][NextLifecycle]_vars
    /\ WF_vars(RunTicks)
    /\ \A c \in ConnIds : WF_vars(SocketCloses(c))

\* ------------------------------------------------------------------ claims

\* The four-state view of section 3 read off the service: Stopping while a
\* stop() promise is pending, Running once a start() has completed, Starting
\* while a start() promise is pending, otherwise Stopped.
ServerState ==
    IF StopPending > 0 THEN "Stopping"
    ELSE IF isActive THEN "Running"
    ELSE IF StartPending # {} THEN "Starting"
    ELSE "Stopped"

\* The frames sent for inbound message m, in order.
FramesOf(m) == SelectSeq(sent, LAMBDA e : e.m = m)
RECURSIVE TypesOf(_)
TypesOf(q) == IF q = <<>> THEN <<>> ELSE <<Head(q).frame.type>> \o TypesOf(Tail(q))

\* C1: concurrent start() calls never double-bind: at most one bind attempt of
\* the service is outstanding at any time.
C1_NoDoubleBind == Cardinality(StartPending) <= 1

\* C2: while Running (a start() has completed, no stop() since), a start()
\* call returns at once, creates no listener, leaves the registry and
\* isRunning() as they are, and exactly one server of the service is bound.
C2_StartIdempotentWhileRunning ==
    /\ [](isActive /\ StopPending = 0 => Cardinality(Bound) = 1)
    /\ [][(isActive /\ Start) =>
            /\ last' = "start_noop"
            /\ UNCHANGED <<isActive, server, wss, connectedClients, srv, ticks,
                           conn, msgs, sent>>]_vars
C2_Witness ==
    /\ last = "start_noop" /\ isActive /\ StopPending = 0
    /\ Cardinality(Bound) = 1 /\ connectedClients # {}

\* C3: when the bind fails, the start() promise is rejected and the service is
\* Stopped afterwards: isRunning() is false and the registry is empty.
C3_BindFailureLeavesStopped ==
    last = "binderror" =>
        /\ \E i \in SrvIds : srv[i].startP = "rejected"
        /\ ~isRunning
        /\ connectedClients = {}

\* C4: stop() completes without any client closing its side: a pending stop()
\* is always eventually resolved.
C4_StopCompletes == (StopPending > 0) ~> (StopPending = 0)

\* C5: when a stop() call has completed the registry is empty and isRunning()
\* is false, and a later broadcast() sends nothing to a connection that was
\* accepted before that stop().
C5_StopEmptiesRegistry ==
    [][/\ last' \in {"stop_noop", "stop_done"} =>
            (connectedClients' = {} /\ ~isActive')
       /\ (\E p \in Payloads : Broadcast(p, {})) =>
            \A n \in 1..Len(bcast'[Len(bcast')].to) :
                bcast'[Len(bcast')].to[n] \notin stale]_vars

C7_StopNoopWhileStopping ==
    [][(StopPending > 0 /\ Stop) => UNCHANGED <<srv, ticks>>]_vars

\* C8: a start() call completes only with the endpoint bound and isRunning()
\* true; a stop() call completes only with no endpoint of the service bound
\* and isRunning() false.
C8_CompletionMeansStateHolds ==
    /\ last \in {"listening", "start_noop"} => (isRunning /\ Bound # {})
    /\ last \in {"stop_noop", "stop_done"} => (~isRunning /\ Bound = {})

\* C9: isRunning() is true exactly in state Running: false in Stopped, in
\* Starting and in Stopping.
C9_IsRunningIffRunning == isRunning <=> (ServerState = "Running")

\* C10: for a chat frame with non-empty text on connection c whose dispatch
\* succeeded, the frames sent for it are chat_started then chat_opened, all on
\* c; while the dispatch is pending only chat_started was sent.
C10_ChatFrames ==
    \A m \in 1..Len(msgs) :
        IsChat(msgs[m].f) =>
            /\ \A n \in 1..Len(sent) : sent[n].m = m => sent[n].to = msgs[m].c
            /\ msgs[m].result = "pending" =>
                   TypesOf(FramesOf(m)) = <<"chat_started">>
            /\ msgs[m].result = "completed" =>
                   TypesOf(FramesOf(m)) = <<"chat_started", "chat_opened">>
C10_Witness ==
    \E m \in 1..Len(msgs) :
        /\ IsChat(msgs[m].f) /\ msgs[m].result = "completed"
        /\ Len(FramesOf(m)) = 2
        /\ \E d \in ConnIds : d # msgs[m].c /\ conn[d].st = "OPEN"

\* A frame the handler answers with an error: text that does not decode, or a
\* decoded value that is neither a chat with text nor a clear_history.
BadFrame(f) == DecodeThrows(f) \/ (~IsChat(f) /\ ~IsClearHistory(f))

\* C11: for a clear_history frame on connection c the clear-history command is
\* invoked after clear_started was sent and before anything else is; when the
\* dispatch succeeded the frames sent for it are clear_started then
\* clear_completed, all on c.
C11_ClearHistoryFrames ==
    \A m \in 1..Len(msgs) :
        msgs[m].f.type = "clear_history" =>
            /\ msgs[m].result \in {"pending", "completed", "failed"}
            /\ msgs[m].cmd = [name |-> "workbench.action.chat.clearHistory",
                              query |-> "undefined"]
            /\ \A n \in 1..Len(sent) : sent[n].m = m => sent[n].to = msgs[m].c
            /\ msgs[m].result = "pending" =>
                   TypesOf(FramesOf(m)) = <<"clear_started">>
            /\ msgs[m].result = "completed" =>
                   TypesOf(FramesOf(m)) = <<"clear_started", "clear_completed">>
C11_Witness ==
    \E m \in 1..Len(msgs) :
        /\ msgs[m].f.type = "clear_history" /\ msgs[m].result = "completed"
        /\ TypesOf(FramesOf(m)) = <<"clear_started", "clear_completed">>
        /\ conn[msgs[m].c].st = "OPEN"

\* C12: when the dispatched command of a chat or clear_history frame fails,
\* the frames sent for it are the started acknowledgement and then one error
\* frame 'Failed to process message', on the originating connection, and no
\* completion frame.
C12_DispatchFailure ==
    \A m \in 1..Len(msgs) :
        (IsChat(msgs[m].f) \/ IsClearHistory(msgs[m].f)) /\ msgs[m].result = "failed" =>
            /\ TypesOf(FramesOf(m)) =
                   <<IF IsChat(msgs[m].f) THEN "chat_started" ELSE "clear_started", "error">>
            /\ FramesOf(m)[2].frame.message = "Failed to process message"
            /\ \A n \in 1..Len(sent) : sent[n].m = m => sent[n].to = msgs[m].c
C12_Witness ==
    /\ \E m \in 1..Len(msgs) :
         IsChat(msgs[m].f) /\ msgs[m].result = "failed" /\ Len(FramesOf(m)) = 2
    /\ \E m \in 1..Len(msgs) :
         IsClearHistory(msgs[m].f) /\ msgs[m].result = "failed" /\ Len(FramesOf(m)) = 2

\* C13: a frame that does not decode or has an unsupported shape is answered
\* with exactly one error frame on its connection and no command; handling it
\* leaves the connection open and the registry as it was, and a chat or
\* clear_history frame received later on the same connection is acknowledged
\* and dispatched as usual.
C13_BadFrameOneError ==
    /\ [](\A m \in 1..Len(msgs) :
            BadFrame(msgs[m].f) =>
                /\ TypesOf(FramesOf(m)) = <<"error">>
                /\ FramesOf(m)[1].to = msgs[m].c
                /\ msgs[m].cmd.name = "none" /\ msgs[m].pc = "done"
                /\ \A k \in (m + 1)..Len(msgs) :
                       msgs[k].c = msgs[m].c /\ ~BadFrame(msgs[k].f) =>
                           /\ msgs[k].cmd = IF IsChat(msgs[k].f)
                                            THEN [name |-> "workbench.action.chat.open",
                                                  query |-> msgs[k].f.message]
                                            ELSE [name |-> "workbench.action.chat.clearHistory",
                                                  query |-> "undefined"]
                           /\ Head(FramesOf(k)).frame.type \in {"chat_started", "clear_started"}
                           /\ msgs[k].result = "completed" =>
                                  FramesOf(k)[2].frame.type \in {"chat_opened", "clear_completed"})
    /\ [][\A c \in ConnIds, f \in Frames :
            BadFrame(f) /\ OnMessage(c, f, MaxProtocolMsgs) =>
                /\ conn' = conn /\ conn'[c].st = "OPEN"
                /\ connectedClients' = connectedClients]_vars
C13_Witness ==
    /\ Len(msgs) = 2 /\ msgs[1].c = msgs[2].c
    /\ ~msgs[1].f.json /\ BadFrame(msgs[1].f) /\ Len(FramesOf(1)) = 1
    /\ IsChat(msgs[2].f) /\ msgs[2].result = "completed"
    /\ TypesOf(FramesOf(2)) = <<"chat_started", "chat_opened">>
    /\ msgs[1].c \in connectedClients /\ conn[msgs[1].c].st = "OPEN"

\* C14: frames of one connection are handled in the order received: every
\* frame sent for an earlier inbound frame of a connection is sent before any
\* frame sent for a later inbound frame of the same connection.
C14_PerConnectionOrder ==
    \A i, j \in 1..Len(sent) :
        /\ msgs[sent[i].m].c = msgs[sent[j].m].c
        /\ sent[i].m < sent[j].m
        => i < j

\* The registry members whose readyState is OPEN.
OpenMembers == {c \in connectedClients : conn[c].st = "OPEN"}

\* C15: a broadcast() over a registry with M open members sends the payload
\* to exactly those M, once each, and leaves no member in the registry that
\* was not open.
C15_BroadcastPrunes ==
    [][\A p \in Payloads :
         ~StringifyThrows(p) /\ Broadcast(p, {}) =>
             /\ Len(bcast'[Len(bcast')].to) = Cardinality(OpenMembers)
             /\ {bcast'[Len(bcast')].to[n] : n \in 1..Len(bcast'[Len(bcast')].to)} = OpenMembers
             /\ \A c \in connectedClients : conn[c].st # "OPEN" => c \notin connectedClients']_vars

\* C16: when client.send throws for some open members during a broadcast() of
\* a serialisable payload, the call still returns normally, exactly those
\* members leave the registry, and every other open member is sent the
\* payload exactly once; nothing else changes.
C16_SendFailureContained ==
    [][\A p \in Payloads, bad \in SUBSET ConnIds :
         ~StringifyThrows(p) /\ Broadcast(p, bad) =>
             /\ ~bcast'[Len(bcast')].threw
             /\ connectedClients' = connectedClients \ (OpenMembers \cap bad)
             /\ Len(bcast'[Len(bcast')].to) = Cardinality(OpenMembers \ bad)
             /\ {bcast'[Len(bcast')].to[n] : n \in 1..Len(bcast'[Len(bcast')].to)}
                    = OpenMembers \ bad
             /\ UNCHANGED <<isActive, server, wss, srv, ticks, conn>>]_vars
C16_Witness ==
    /\ last = "broadcast" /\ bcast # <<>>
    /\ ~bcast[Len(bcast)].threw /\ bcast[Len(bcast)].to = <<2>>
    /\ conn[1].st = "OPEN" /\ conn[2].st = "OPEN"
    /\ connectedClients = {2}

\* C17: handling a frame of connection c, up to and after the await, changes
\* neither the lifecycle state, isRunning() and the port, nor the registry,
\* nor the readyState of any connection, c included, and every frame it sends
\* goes to c.
C17_ConnectionLocal ==
    [][(\/ \E c \in ConnIds, f \in Frames : OnMessage(c, f, MaxProtocolMsgs)
        \/ \E m \in 1..Len(msgs), ok \in BOOLEAN : DispatchSettles(m, ok)) =>
            /\ UNCHANGED <<isActive, server, wss, connectedClients, srv, ticks,
                           extPort, conn, bcast>>
            /\ ServerState' = ServerState /\ isRunning' = isRunning
            /\ getPort' = getPort
            /\ Len(sent') > Len(sent)
            /\ \A n \in (Len(sent) + 1)..Len(sent') :
                   sent'[n].to = msgs'[sent'[n].m].c]_vars
C17_Witness ==
    /\ last = "dispatched" /\ isActive
    /\ \E m \in 1..Len(msgs) :
         /\ msgs[m].result = "failed" /\ IsChat(msgs[m].f)
         /\ conn[msgs[m].c].st = "OPEN" /\ msgs[m].c \in connectedClients
         /\ \E d \in connectedClients : d # msgs[m].c /\ conn[d].st = "OPEN"
    /\ \E m \in 1..Len(msgs) : ~msgs[m].f.json
    /\ \A n \in 1..Len(sent) : sent[n].to = msgs[sent[n].m].c

\* A second instance of the service that holds the port (extPort) has run its
\* listen callback once the tick queue is empty: its isRunning() is true.
OtherRunning == extPort /\ ticks = <<>>

\* C18: while another instance holds the port, a start() of this instance
\* binds nothing and ends in a bind error with isRunning() false and no
\* endpoint of its own bound; the two instances never have isRunning() true
\* together.
C18_NoCoexistence ==
    /\ [](~(isRunning /\ OtherRunning))
    /\ [](last = "binderror" /\ extPort =>
            /\ \E i \in SrvIds : srv[i].startP = "rejected"
            /\ ~isRunning /\ Bound = {})
    /\ [][(extPort /\ ~isActive /\ Start) =>
            /\ srv'[Len(srv')].handle = "failed"
            /\ ticks'[Len(ticks')] = [k |-> "error", s |-> Len(srv')]]_vars
C18_Witness ==
    /\ last = "binderror" /\ extPort /\ OtherRunning
    /\ Len(srv) = 1 /\ srv[1].startP = "rejected" /\ srv[1].handle = "failed"
    /\ ~isRunning

C20_DecodeFailureReply ==
    \A m \in 1..Len(msgs) :
        ~msgs[m].f.json =>
            /\ Len(FramesOf(m)) = 1
            /\ FramesOf(m)[1].to = msgs[m].c
            /\ FramesOf(m)[1].frame.message = "Invalid message format. Expected: ..."

\* C21: no failure leaves the message handler: no handler ends in an
\* unhandled rejection, and a handler that met a failure (text that does not
\* decode, a failed command) has sent 'Failed to process message' on the
\* originating connection as its last frame, also when that connection was no
\* longer open.
C21_FailuresCaught ==
    \A m \in 1..Len(msgs) :
        /\ msgs[m].result # "unhandled"
        /\ DecodeThrows(msgs[m].f) => msgs[m].result = "failed"
        /\ msgs[m].result = "failed" =>
               /\ FramesOf(m) # <<>>
               /\ FramesOf(m)[Len(FramesOf(m))].frame.message = "Failed to process message"
               /\ FramesOf(m)[Len(FramesOf(m))].to = msgs[m].c
C21_Witness ==
    \E m \in 1..Len(msgs) :
        /\ msgs[m].result = "failed" /\ Len(FramesOf(m)) = 2
        /\ ~FramesOf(m)[2].open
        /\ conn[msgs[m].c].st = "CLOSED"

\* C22: a connection is in the registry only while its readyState is OPEN,
\* and while the service is Running every accepted connection that is OPEN is
\* in the registry.
C22_RegistryInvariant ==
    /\ \A c \in connectedClients : conn[c].st = "OPEN"
    /\ ServerState = "Running" =>
           \A c \in ConnIds : conn[c].st = "OPEN" => c \in connectedClients

\* C23: each trigger of a removal of connection c (its 'close' event, its
\* 'error' event, a failed send to it in broadcast()) leaves c out of the
\* registry and the membership of every other connection as it was, whether
\* or not c was still in the registry; the clear of a completing stop()
\* leaves the registry empty.
C23_RemovalIdempotent ==
    [][/\ \A c \in ConnIds :
            (OnClose(c) \/ OnError(c)) =>
                /\ c \notin connectedClients'
                /\ \A d \in ConnIds \ {c} :
                       d \in connectedClients' <=> d \in connectedClients
       /\ \A p \in Payloads, bad \in SUBSET ConnIds :
            Broadcast(p, bad) =>
                /\ \A c \in bad : conn[c].st = "OPEN" /\ ~StringifyThrows(p) =>
                       c \notin connectedClients'
                /\ \A d \in ConnIds :
                       d \notin bad => (d \in connectedClients' <=> d \in connectedClients)
       /\ last' = "stop_done" => connectedClients' = {}]_vars
C23_Witness ==
    /\ last = "close"
    /\ bcast # <<>> /\ bcast[1].failed = {1}
    /\ conn[1].st = "CLOSED" /\ conn[2].st = "OPEN"
    /\ connectedClients = {2}

\* C24: a connection enters the registry in the step that accepts it, and in
\* no other step; it was not in the registry before; and every frame handled
\* came from a connection accepted, and so added, before.
C24_AddedOnceAtAccept ==
    /\ [](\A m \in 1..Len(msgs) : conn[msgs[m].c].st # "NEW")
    /\ [](\A c \in connectedClients : conn[c].st # "NEW")
    /\ [][/\ \A c \in ConnIds :
               conn[c].st = "NEW" /\ conn'[c].st # "NEW" =>
                   /\ conn'[c].st = "OPEN"
                   /\ c \notin connectedClients /\ c \in connectedClients'
                   /\ UNCHANGED <<msgs, sent>>
          /\ \A c \in connectedClients' \ connectedClients :
               conn[c].st = "NEW" /\ conn'[c].st = "OPEN"
          /\ \A c \in ConnIds, f \in Frames :
               OnMessage(c, f, MaxProtocolMsgs) =>
                   conn[c].st = "OPEN"]_vars
C24_Witness ==
    /\ Len(msgs) = 2 /\ msgs[1].c # msgs[2].c
    /\ connectedClients = {1, 2}
    /\ last = "message"

\* C25: in a broadcast() a member of the registry whose readyState is not OPEN
\* is not sent to, is not counted as a failed send, is still in the registry
\* afterwards, and every open member whose send does not throw is sent the
\* payload.
C25_NonOpenSkipped ==
    [][\A p \in Payloads, bad \in SUBSET ConnIds :
         ~StringifyThrows(p) /\ Broadcast(p, bad) =>
             /\ \A c \in connectedClients :
                    conn[c].st # "OPEN" =>
                        /\ \A n \in 1..Len(bcast'[Len(bcast')].to) :
                               bcast'[Len(bcast')].to[n] # c
                        /\ c \notin bcast'[Len(bcast')].failed
                        /\ c \in connectedClients'
             /\ \A c \in OpenMembers \ bad :
                    \E n \in 1..Len(bcast'[Len(bcast')].to) :
                        bcast'[Len(bcast')].to[n] = c]_vars
C25_Witness ==
    /\ last = "broadcast" /\ bcast # <<>>
    /\ bcast[Len(bcast)].to = <<2>> /\ bcast[Len(bcast)].failed = {}
    /\ conn[1].st = "CLOSING" /\ conn[2].st = "OPEN"
    /\ connectedClients = {1, 2}

\* C26: while the command of a frame of connection a is pending, a frame
\* arriving on another open connection b is handled at once, and a pending
\* command of b can settle and be answered, whatever a's command does.
C26_PendingDoesNotBlock ==
    \A a, b \in ConnIds :
        (/\ a # b
         /\ \E m \in 1..Len(msgs) : msgs[m].c = a /\ msgs[m].pc = "dispatch"
         /\ conn[b].st = "OPEN" /\ ticks = <<>>) =>
            /\ Len(msgs) < MaxProtocolMsgs =>
                   \A f \in Frames : ENABLED OnMessage(b, f, MaxProtocolMsgs)
            /\ \A k \in 1..Len(msgs) :
                   msgs[k].c = b /\ msgs[k].pc = "dispatch" =>
                       /\ TypesOf(FramesOf(k)) \in {<<"chat_started">>, <<"clear_started">>}
                       /\ ENABLED DispatchSettles(k, TRUE)
C26_Witness ==
    /\ Len(msgs) = 2 /\ msgs[1].c # msgs[2].c
    /\ msgs[1].pc = "dispatch" /\ IsChat(msgs[1].f)
    /\ msgs[2].result = "completed" /\ IsChat(msgs[2].f)
    /\ TypesOf(FramesOf(2)) = <<"chat_started", "chat_opened">>
    /\ FramesOf(2)[2].open

\* C27: the message handler calls send only on a connection whose readyState
\* is OPEN: a completion or error frame of a command that settles after its
\* connection has closed is not sent.
C27_SendsGuarded == \A n \in 1..Len(sent) : sent[n].open

\* C28: a stop() call on a Running service begins by closing every connection
\* of the registry, and when a stop() call completes no accepted connection
\* is still open.
C28_StopClosesConnections ==
    /\ [][(isActive /\ Stop) =>
            \A c \in connectedClients : conn'[c].st # "OPEN"]_vars
    /\ [](last = "stop_done" =>
            \A c \in ConnIds : conn[c].st \notin {"OPEN", "CLOSING"})

\* C29: each chat frame with text has one command, chat.open with the text of
\* the frame as its query, each clear_history frame has one command,
\* chat.clearHistory, both invoked with the started frame as the only frame
\* sent so far; a frame that does not decode or has another shape has none.
C29_DispatchOncePerCommand ==
    \A m \in 1..Len(msgs) :
        /\ (msgs[m].f.json /\ msgs[m].f.type = "chat"
              /\ msgs[m].f.message \notin {"", "undefined"}) =>
               /\ msgs[m].cmd = [name |-> "workbench.action.chat.open",
                                 query |-> msgs[m].f.message]
               /\ Head(FramesOf(m)).frame.type = "chat_started"
        /\ (msgs[m].f.json /\ msgs[m].f.type = "clear_history") =>
               /\ msgs[m].cmd = [name |-> "workbench.action.chat.clearHistory",
                                 query |-> "undefined"]
               /\ Head(FramesOf(m)).frame.type = "clear_started"
        /\ msgs[m].pc = "dispatch" => Len(FramesOf(m)) = 1
        /\ (~msgs[m].f.json \/ msgs[m].f.type \notin {"chat", "clear_history"}) =>
               msgs[m].cmd.name = "none" /\ msgs[m].pc = "done"
C29_Witness ==
    /\ Len(msgs) = 2
    /\ msgs[1].cmd = [name |-> "workbench.action.chat.open", query |-> "hello"]
    /\ msgs[1].pc = "dispatch"
    /\ msgs[2].f.text = "{not:valid}" /\ msgs[2].cmd.name = "none"

\* C30: every frame the handler sends has one of the five types, status
\* 'error' exactly when its type is 'error' and 'success' otherwise; the
\* frames sent for one inbound frame are started, started then completed of
\* the same command, started then error, or a single error.
C30_FrameShapes ==
    /\ \A n \in 1..Len(sent) :
           /\ sent[n].frame.type \in {"chat_started", "chat_opened", "clear_started",
                                      "clear_completed", "error"}
           /\ sent[n].frame.status = IF sent[n].frame.type = "error" THEN "error" ELSE "success"
    /\ \A m \in 1..Len(msgs) :
           /\ TypesOf(FramesOf(m)) \in
                  { <<"chat_started">>, <<"clear_started">>,
                    <<"chat_started", "chat_opened">>, <<"clear_started", "clear_completed">>,
                    <<"chat_started", "error">>, <<"clear_started", "error">>,
                    <<"error">> }
           /\ msgs[m].pc = "done" => Len(FramesOf(m)) = IF msgs[m].cmd.name = "none" THEN 1 ELSE 2
C30_Witness ==
    /\ Len(msgs) = 2
    /\ TypesOf(FramesOf(1)) = <<"clear_started", "error">>
    /\ TypesOf(FramesOf(2)) = <<"chat_started", "chat_opened">>
    /\ \E n \in 1..Len(sent) : sent[n].frame.status = "error"

\* C31: once dispose() has been called and the contribution's start has run
\* to its end, the server the contribution started is stopped or being
\* stopped: it is not left running and bound with no stop() under way.
C31_DisposeStopsServer ==
    (disposables.isDisposed /\ disposables.hook # "none" /\ ticks = <<>>) =>
        \/ ~isRunning /\ Bound = {}
        \/ StopPending > 0

\* C32: a start() call that returned with success while a stop() was in
\* progress is not lost: unless stop() is called again, whenever afterwards
\* no stop() and no start() is pending the service is Running with its
\* endpoint bound.
C32_StartDuringStopNotLost ==
    []((last = "start_noop" /\ StopPending > 0) =>
          \/ []((StopPending = 0 /\ StartPending = {}) => (isRunning /\ Bound # {}))
          \/ <>(last \in {"stop_close", "stop_noop"}))

\* C33: a frame that decodes to type 'chat' with the message missing or empty
\* is answered with the single error frame 'Invalid message format...' on its
\* connection; no chat_started is sent and no command is invoked.
C33_ChatWithoutText ==
    \A m \in 1..Len(msgs) :
        (/\ msgs[m].f.json /\ msgs[m].f.object /\ msgs[m].f.type = "chat"
         /\ msgs[m].f.message \in {"", "undefined"}) =>
            /\ TypesOf(FramesOf(m)) = <<"error">>
            /\ FramesOf(m)[1].frame.message = "Invalid message format. Expected: ..."
            /\ FramesOf(m)[1].to = msgs[m].c
            /\ msgs[m].cmd.name = "none" /\ msgs[m].pc = "done"
C33_Witness ==
    /\ Len(msgs) = 2
    /\ msgs[1].f.text = "{type:chat,message:}" /\ msgs[2].f.text = "{type:chat}"
    /\ TypesOf(FramesOf(1)) = <<"error">> /\ TypesOf(FramesOf(2)) = <<"error">>
    /\ FramesOf(1)[1].open /\ FramesOf(2)[1].open

\* C34: the service can be restarted.  A start() after a completed stop(),
\* with the port not taken by another process, binds a fresh listener and its
\* listen callback makes the service Running; a connection accepted while
\* Running is in the registry; while Running the registry holds no connection
\* of a previous run; a close or error event of a connection of a previous
\* run leaves the registry membership of every other connection as it was.
Restarting ==
    /\ ~isActive /\ ~extPort
    /\ \E i \in SrvIds : srv[i].startP = "resolved"
    /\ StartPending = {} /\ StopPending = 0
    /\ Start
C34_RestartBinds ==
    Restarting =>
        /\ srv'[Len(srv')].handle = "bound"
        /\ ticks'[Len(ticks')] = [k |-> "listening", s |-> Len(srv')]
C34_RestartRuns ==
    (OnListening /\ srv[Head(ticks).s].handle = "bound") => isRunning'
C34_RestartTracks ==
    \A i \in SrvIds : (isActive /\ OnConnection(i)) =>
        \E c \in ConnIds : conn[c].st = "NEW" /\ conn'[c].st = "OPEN"
                           /\ c \in connectedClients'
C34_RestartClean ==
    isActive' => connectedClients' \cap stale' = {}
C34_RestartUndisturbed ==
    \A c \in stale : (OnClose(c) \/ OnError(c)) =>
        connectedClients' \ {c} = connectedClients \ {c}
C34_Restart ==
    [][/\ C34_RestartBinds
       /\ C34_RestartRuns
       /\ C34_RestartTracks
       /\ C34_RestartClean
       /\ C34_RestartUndisturbed]_vars
====
